---- MODULE Spec2Model ----
(***************************************************************************)
(* Model of src/func.py: the BasicAuth class (config, is_config_valid,     *)
(* get_user_details_from_token, handle_request) and the module-level       *)
(* handler with its process-wide BasicAuth instance.                       *)
(*                                                                         *)
(* Text is a sequence of Unicode code points, binary data a sequence of    *)
(* bytes (0..255).  A JSON value is a record [t, s]: t is its type and s   *)
(* its content (the code points of a string, the one number of a number,   *)
(* the elements of a list).  None (JSON null, or the result of dict.get on *)
(* a missing key) is JNull.                                                *)
(***************************************************************************)
EXTENDS Integers, Sequences, FiniteSets, TLC

\* Bound of the model: the longest VALID_USERS array that is enumerated.
MaxEntries == 2

(***************************************************************************)
(* Text and JSON values                                                    *)
(***************************************************************************)

\* ord(":"), the separator of str.split(":", 1)
Colon == 58

\* The literal "Basic " of token.startswith("Basic ")
BasicPrefix == <<66, 97, 115, 105, 99, 32>>

\* str.startswith
StartsWith(s, prefix) ==
    /\ Len(s) >= Len(prefix)
    /\ SubSeq(s, 1, Len(prefix)) = prefix

JNull == [t |-> "null", s |-> <<>>]

JStr(s) == [t |-> "str", s |-> s]

JNum(n) == [t |-> "num", s |-> <<n>>]

JList(s) == [t |-> "list", s |-> s]

\* Python truth value of a JSON value, as tested by "if username and password"
\* and "if not token"
Truthy(v) ==
    CASE v.t = "null" -> FALSE
      [] v.t = "num"  -> v.s[1] # 0
      [] OTHER        -> v.s # <<>>

\* Only str has startswith; calling it on any other value raises AttributeError
IsStr(v) == v.t = "str"

\* A list is unhashable: using it as a dict key raises TypeError
Hashable(v) == v.t # "list"

(***************************************************************************)
(* base64.b64decode (validate=False) and base64.b64encode                  *)
(***************************************************************************)

\* ord("="), the base64 padding character
Pad == 61

\* The standard base64 alphabet: sextet -> character
B64Char(v) ==
    IF v < 26 THEN 65 + v
    ELSE IF v < 52 THEN 97 + (v - 26)
    ELSE IF v < 62 THEN 48 + (v - 52)
    ELSE IF v = 62 THEN 43
    ELSE 47

\* character -> sextet, or 64 and above for a character outside the alphabet
B64Value(c) ==
    IF c >= 65 /\ c <= 90 THEN c - 65
    ELSE IF c >= 97 /\ c <= 122 THEN c - 97 + 26
    ELSE IF c >= 48 /\ c <= 57 THEN c - 48 + 52
    ELSE IF c = 43 THEN 62
    ELSE IF c = 47 THEN 63
    ELSE 64

RECURSIVE b64encode(_)
\* base64.b64encode: three bytes to four characters, "=" padded
b64encode(bytes) ==
    IF Len(bytes) = 0 THEN <<>>
    ELSE IF Len(bytes) = 1 THEN
        << B64Char(bytes[1] \div 4), B64Char((bytes[1] % 4) * 16), Pad, Pad >>
    ELSE IF Len(bytes) = 2 THEN
        << B64Char(bytes[1] \div 4),
           B64Char(((bytes[1] % 4) * 16) + (bytes[2] \div 16)),
           B64Char((bytes[2] % 16) * 4), Pad >>
    ELSE
        << B64Char(bytes[1] \div 4),
           B64Char(((bytes[1] % 4) * 16) + (bytes[2] \div 16)),
           B64Char(((bytes[2] % 16) * 4) + (bytes[3] \div 64)),
           B64Char(bytes[3] % 64) >>
        \o b64encode(SubSeq(bytes, 4, Len(bytes)))

RECURSIVE a2b_base64(_, _, _, _, _, _)
\* The decoding loop of b64decode without validation: a character outside the
\* alphabet is skipped, a pad sequence that completes a quad ends the input,
\* and an incomplete quad at the end raises binascii.Error.
\* quad_pos, leftchar and pads are the loop's state, out the bytes so far.
a2b_base64(s, i, quad_pos, leftchar, pads, out) ==
    IF i > Len(s) THEN
        [ok |-> quad_pos = 0, val |-> IF quad_pos = 0 THEN out ELSE <<>>]
    ELSE IF s[i] = Pad THEN
        IF quad_pos >= 2 /\ quad_pos + pads + 1 >= 4
        THEN [ok |-> TRUE, val |-> out]
        ELSE a2b_base64(s, i + 1, quad_pos, leftchar,
                        IF quad_pos >= 2 THEN pads + 1 ELSE pads, out)
    ELSE IF B64Value(s[i]) >= 64 THEN
        a2b_base64(s, i + 1, quad_pos, leftchar, pads, out)
    ELSE
        LET c == B64Value(s[i]) IN
        CASE quad_pos = 0 -> a2b_base64(s, i + 1, 1, c, 0, out)
          [] quad_pos = 1 ->
               a2b_base64(s, i + 1, 2, c % 16, 0,
                          Append(out, (leftchar * 4) + (c \div 16)))
          [] quad_pos = 2 ->
               a2b_base64(s, i + 1, 3, c % 4, 0,
                          Append(out, (leftchar * 16) + (c \div 4)))
          [] OTHER ->
               a2b_base64(s, i + 1, 0, 0, 0, Append(out, (leftchar * 64) + c))

\* base64.b64decode(str): a str with a non-ASCII character raises ValueError
\* before any decoding; ok = FALSE stands for the exception.
b64decode(s) ==
    IF \E i \in 1..Len(s) : s[i] > 127
    THEN [ok |-> FALSE, val |-> <<>>]
    ELSE a2b_base64(s, 1, 0, 0, 0, <<>>)

(***************************************************************************)
(* UTF-8: bytes.decode('utf-8') and str.encode('utf-8')                    *)
(***************************************************************************)

IsCont(b) == b >= 128 /\ b <= 191

RECURSIVE utf8_decode(_, _, _)
\* Strict UTF-8 decoding of b from position i; ok = FALSE stands for
\* UnicodeDecodeError (bad lead byte, bad or missing continuation byte,
\* overlong form, surrogate, code point above U+10FFFF).
utf8_decode(b, i, out) ==
    IF i > Len(b) THEN [ok |-> TRUE, val |-> out]
    ELSE LET b0 == b[i]
             n  == Len(b) - i
             bad == [ok |-> FALSE, val |-> <<>>]
         IN
         IF b0 < 128 THEN utf8_decode(b, i + 1, Append(out, b0))
         ELSE IF b0 >= 194 /\ b0 <= 223 THEN
             IF n >= 1 /\ IsCont(b[i + 1])
             THEN utf8_decode(b, i + 2,
                              Append(out, ((b0 - 192) * 64) + (b[i + 1] - 128)))
             ELSE bad
         ELSE IF b0 >= 224 /\ b0 <= 239 THEN
             IF /\ n >= 2
                /\ IsCont(b[i + 1])
                /\ IsCont(b[i + 2])
                /\ (b0 = 224 => b[i + 1] >= 160)
                /\ (b0 = 237 => b[i + 1] <= 159)
             THEN utf8_decode(b, i + 3,
                              Append(out, ((b0 - 224) * 4096)
                                          + ((b[i + 1] - 128) * 64)
                                          + (b[i + 2] - 128)))
             ELSE bad
         ELSE IF b0 >= 240 /\ b0 <= 244 THEN
             IF /\ n >= 3
                /\ IsCont(b[i + 1])
                /\ IsCont(b[i + 2])
                /\ IsCont(b[i + 3])
                /\ (b0 = 240 => b[i + 1] >= 144)
                /\ (b0 = 244 => b[i + 1] <= 143)
             THEN utf8_decode(b, i + 4,
                              Append(out, ((b0 - 240) * 262144)
                                          + ((b[i + 1] - 128) * 4096)
                                          + ((b[i + 2] - 128) * 64)
                                          + (b[i + 3] - 128)))
             ELSE bad
         ELSE bad

RECURSIVE utf8_encode(_)
\* str.encode('utf-8') of text without surrogates
utf8_encode(text) ==
    IF text = <<>> THEN <<>>
    ELSE LET c == Head(text) IN
         (IF c < 128 THEN <<c>>
          ELSE IF c < 2048 THEN <<192 + (c \div 64), 128 + (c % 64)>>
          ELSE IF c < 65536 THEN
              <<224 + (c \div 4096), 128 + ((c \div 64) % 64), 128 + (c % 64)>>
          ELSE <<240 + (c \div 262144), 128 + ((c \div 4096) % 64),
                 128 + ((c \div 64) % 64), 128 + (c % 64)>>)
         \o utf8_encode(Tail(text))

(***************************************************************************)
(* BasicAuth                                                               *)
(***************************************************************************)

\* self.valid_users = {} of __init__: the empty dict
EmptyUsers == [k \in {} |-> JNull]

\* self.valid_users[username] = password
SetUser(users, username, password) ==
    [k \in (DOMAIN users) \cup {username} |->
        IF k = username THEN password ELSE users[k]]

\* An element of the parsed VALID_USERS array.  obj is FALSE for an element
\* that is not a JSON object; a missing key reads as JNull, as dict.get
\* returns None for it.
Entry(username, password) ==
    [obj |-> TRUE, username |-> username, password |-> password]

NonObjectEntry == [obj |-> FALSE, username |-> JNull, password |-> JNull]

\* The value of ctx.Config().get("VALID_USERS").  kind is
\*   "absent"   the key is not configured (None)
\*   "blank"    empty or whitespace only (strip() is empty)
\*   "invalid"  text that json.loads rejects
\*   "scalar"   JSON that cannot be iterated (a number, true, null)
\*   "emptyobject"  the JSON object {} or string "" (iterating it yields
\*              nothing)
\*   "object"   a JSON object with keys or a string with characters
\*              (iterating it yields strings, which have no get)
\*   "array"    a JSON array, its elements in entries
ConfigText(kind, entries) == [kind |-> kind, entries |-> entries]

RECURSIVE load_users_first_wins(_, _, _)
\* The loop of config with the assignment guarded by "username not in
\* self.valid_users": the first of several entries of a username is kept.
load_users_first_wins(users, entries, i) ==
    IF i > Len(entries) THEN [raised |-> FALSE, users |-> users]
    ELSE LET user_obj == entries[i] IN
         IF ~user_obj.obj THEN [raised |-> TRUE, users |-> users]
         ELSE IF Truthy(user_obj.username) /\ Truthy(user_obj.password) THEN
             IF ~Hashable(user_obj.username)
             THEN [raised |-> TRUE, users |-> users]
             ELSE load_users_first_wins(
                      IF user_obj.username \in DOMAIN users THEN users
                      ELSE SetUser(users, user_obj.username, user_obj.password),
                      entries, i + 1)
         ELSE load_users_first_wins(users, entries, i + 1)

RECURSIVE load_users(_, _, _)
\* The loop "for user_obj in users_array" of config from element i on.
\* raised is TRUE when an element raises: user_obj.get on a non-object
\* (AttributeError) or an unhashable username as a key (TypeError).  users is
\* the dict as the loop left it.
load_users(users, entries, i) ==
    IF i > Len(entries) THEN [raised |-> FALSE, users |-> users]
    ELSE LET user_obj == entries[i] IN
         IF ~user_obj.obj THEN [raised |-> TRUE, users |-> users]
         ELSE IF Truthy(user_obj.username) /\ Truthy(user_obj.password) THEN
             IF ~Hashable(user_obj.username)
             THEN [raised |-> TRUE, users |-> users]
             ELSE load_users(
                      SetUser(users, user_obj.username, user_obj.password),
                      entries, i + 1)
         ELSE load_users(users, entries, i + 1)

\* The try block of config: json.loads, clear, the loop.
parse_users(users_config) ==
    CASE users_config.kind = "invalid" -> [raised |-> TRUE, users |-> EmptyUsers]
      [] users_config.kind = "scalar"  -> [raised |-> TRUE, users |-> EmptyUsers]
      [] users_config.kind = "object"  -> [raised |-> TRUE, users |-> EmptyUsers]
      [] users_config.kind = "emptyobject" ->
             [raised |-> FALSE, users |-> EmptyUsers]
      [] OTHER -> load_users(EmptyUsers, users_config.entries, 1)

\* "if users_config and users_config.strip()"
ConfigPresent(users_config) == users_config.kind \notin {"absent", "blank"}

\* config whose except clause does not clear the dict: json.loads raises
\* before the clear of the try block, the loop after it
config_keep_partial(valid_users, users_config) ==
    IF ~ConfigPresent(users_config) THEN valid_users
    ELSE IF users_config.kind = "invalid" THEN valid_users
    ELSE parse_users(users_config).users

\* config falling back to a built-in user when VALID_USERS is absent
config_default_user(valid_users, users_config) ==
    IF ~ConfigPresent(users_config)
    THEN SetUser(valid_users, JStr(<<97>>), JStr(<<112>>))
    ELSE LET r == parse_users(users_config) IN
         IF r.raised THEN EmptyUsers ELSE r.users

\* BasicAuth.config: the value of self.valid_users when config returns.
\* Nothing is raised: every exception of the try block is caught, and the
\* handler clears the dict.
config(valid_users, users_config) ==
    IF ~ConfigPresent(users_config) THEN valid_users
    ELSE LET r == parse_users(users_config) IN
         IF r.raised THEN EmptyUsers ELSE r.users

\* is_config_valid comparing with ">= 0"
is_config_valid_nonneg(valid_users) == Cardinality(DOMAIN valid_users) >= 0

\* BasicAuth.is_config_valid
is_config_valid(valid_users) == Cardinality(DOMAIN valid_users) > 0

\* decoded_data.split(":", 1) splitting on the last colon (rsplit)
split_last_colon(text) ==
    IF \A i \in 1..Len(text) : text[i] # Colon THEN <<text>>
    ELSE LET k == CHOOSE i \in 1..Len(text) :
                      /\ text[i] = Colon
                      /\ \A j \in (i + 1)..Len(text) : text[j] # Colon
         IN << SubSeq(text, 1, k - 1), SubSeq(text, k + 1, Len(text)) >>

RECURSIVE find(_, _, _)
\* str.find from position i: the index of the first c, 0 when there is none
find(text, c, i) ==
    IF i > Len(text) THEN 0
    ELSE IF text[i] = c THEN i
    ELSE find(text, c, i + 1)

RECURSIVE split_every_colon(_)
\* decoded_data.split(":"): a split on every colon
split_every_colon(text) ==
    LET k == find(text, Colon, 1) IN
    IF k = 0 THEN <<text>>
    ELSE << SubSeq(text, 1, k - 1) >>
         \o split_every_colon(SubSeq(text, k + 1, Len(text)))

\* decoded_data.split(":", 1)
split_colon(text) ==
    LET k == find(text, Colon, 1) IN
    IF k = 0 THEN <<text>>
    ELSE << SubSeq(text, 1, k - 1), SubSeq(text, k + 1, Len(text)) >>

\* The try block of get_user_details_from_token, for a str token
decode_token(token) ==
    IF ~StartsWith(token, BasicPrefix) THEN [raised |-> FALSE, val |-> <<>>]
    ELSE LET encoded_data == SubSeq(token, Len(BasicPrefix) + 1, Len(token))
             bytes == b64decode(encoded_data)
         IN
         IF ~bytes.ok THEN [raised |-> TRUE, val |-> <<>>]
         ELSE LET decoded_data == utf8_decode(bytes.val, 1, <<>>) IN
              IF ~decoded_data.ok THEN [raised |-> TRUE, val |-> <<>>]
              ELSE LET user_credentials == split_colon(decoded_data.val) IN
                   [raised |-> FALSE,
                    val |-> IF Len(user_credentials) = 2
                            THEN user_credentials ELSE <<>>]

\* BasicAuth.get_user_details_from_token: [username, password] or [];
\* an exception of the try block is caught and gives [].
get_user_details_from_token(token) ==
    LET r == decode_token(token) IN
    IF r.raised THEN <<>> ELSE r.val

(***************************************************************************)
(* Requests and results                                                    *)
(***************************************************************************)

\* The data argument of handle_request.  kind is
\*   "none"       no data (None)
\*   "invalid"    bytes that json.loads rejects
\*   "nonobject"  JSON that is not an object (input_data.get raises)
\*   "object"     a JSON object; token is input_data.get("token")
Request(kind, token) == [kind |-> kind, token |-> token]

\* The response of handle_request.  status "raised" stands for an exception
\* leaving handle_request, "none" for no call yet.
Returned(active, principal) ==
    [status |-> "returned", active |-> active, principal |-> principal]

\* result = {"active": False, "principal": None}
Inactive == Returned(FALSE, JNull)

Raised == [status |-> "raised", active |-> FALSE, principal |-> JNull]

NoResult == [status |-> "none", active |-> FALSE, principal |-> JNull]

\* What one run of the body of handle_request reaches: its response and the
\* [username, password] unpacked at "username, password = user_credentials"
\* (<<>> when the run returns or raises before that line).
Outcome(result, credentials) == [result |-> result, credentials |-> credentials]

\* The lookup testing the username alone
lookup_username_only(valid_users, username, password) ==
    JStr(username) \in DOMAIN valid_users

\* "username in self.valid_users and self.valid_users[username] == password"
lookup(valid_users, username, password) ==
    /\ JStr(username) \in DOMAIN valid_users
    /\ valid_users[JStr(username)] = JStr(password)

\* The statements of handle_request after the configuration check, inside
\* its try block, without the except clause.
handle_request_try(valid_users, data) ==
    IF data.kind \in {"invalid", "nonobject"} THEN Outcome(Raised, <<>>)
    ELSE LET token == IF data.kind = "none" THEN JNull ELSE data.token IN
         IF ~Truthy(token) THEN Outcome(Inactive, <<>>)
         ELSE IF ~IsStr(token) THEN Outcome(Raised, <<>>)
         ELSE IF ~StartsWith(token.s, BasicPrefix) THEN Outcome(Inactive, <<>>)
         ELSE LET user_credentials == get_user_details_from_token(token.s) IN
              IF \/ Len(user_credentials) # 2
                 \/ user_credentials[1] = <<>>
                 \/ user_credentials[2] = <<>>
              THEN Outcome(Inactive, <<>>)
              ELSE LET username == user_credentials[1]
                       password == user_credentials[2]
                   IN
                   IF lookup(valid_users, username, password)
                   THEN Outcome(Returned(TRUE, JStr(username)), user_credentials)
                   ELSE Outcome(Inactive, user_credentials)

\* handle_request whose except clause catches only json.JSONDecodeError
handle_request_narrow_except(valid_users, data) ==
    IF ~is_config_valid(valid_users) THEN Outcome(Inactive, <<>>)
    ELSE LET r == handle_request_try(valid_users, data) IN
         IF r.result.status = "raised" /\ data.kind = "invalid"
         THEN Outcome(Inactive, <<>>)
         ELSE r

\* BasicAuth.handle_request.  It reads self.valid_users and assigns nothing
\* to it.
handle_request(valid_users, data) ==
    IF ~is_config_valid(valid_users) THEN Outcome(Inactive, <<>>)
    ELSE LET r == handle_request_try(valid_users, data) IN
         IF r.result.status = "raised" THEN Outcome(Inactive, r.credentials)
         ELSE r

(***************************************************************************)
(* Inputs                                                                  *)
(***************************************************************************)

\* Text used in credentials: "a", "a:b", "p", "b:p", "q", "5"
TextA == <<97>>

TextAB == <<97, 58, 98>>

TextP == <<112>>

TextBP == <<98, 58, 112>>

TextQ == <<113>>

\* The sequences over S of length at most n
SeqsUpTo(S, n) == UNION {[1..k -> S] : k \in 0..n}

\* The elements a VALID_USERS array is built from
Entries ==
    { Entry(JStr(TextA), JStr(TextP)),        \* {"username":"a","password":"p"}
      Entry(JStr(TextA), JStr(TextBP)),       \* {"username":"a","password":"b:p"}
      Entry(JStr(TextAB), JStr(TextP)),       \* {"username":"a:b","password":"p"}
      Entry(JStr(<<>>), JStr(TextP)),         \* {"username":"","password":"p"}
      Entry(JStr(TextA), JNull),              \* {"username":"a"}
      Entry(JNull, JStr(TextP)),              \* {"password":"p"}
      Entry(JStr(TextA), JNum(5)),            \* {"username":"a","password":5}
      Entry(JList(<<1>>), JStr(TextP)),       \* {"username":[1],"password":"p"}
      NonObjectEntry }                        \* 5

\* The VALID_USERS values with arrays of at most n elements
ConfigsUpTo(n) ==
    { ConfigText(k, <<>>) :
        k \in {"absent", "blank", "invalid", "scalar", "emptyobject", "object"} }
    \cup { ConfigText("array", es) : es \in SeqsUpTo(Entries, n) }

Configs == ConfigsUpTo(MaxEntries)

\* "Basic " + base64(utf-8(text))
BasicToken(text) == BasicPrefix \o b64encode(utf8_encode(text))

\* username + ":" + password
Joined(username, password) == username \o <<Colon>> \o password

\* s with the character c inserted before position i
Insert(s, i, c) == SubSeq(s, 1, i - 1) \o <<c>> \o SubSeq(s, i, Len(s))

\* The token strings of the requests
Tokens ==
    { BasicToken(Joined(TextA, TextP)),          \* a:p
      BasicToken(Joined(TextA, TextBP)),         \* a:b:p
      BasicToken(Joined(TextA, TextQ)),          \* a:q
      BasicToken(Joined(TextA, <<53>>)),         \* a:5
      BasicToken(Joined(TextBP, TextP)),         \* b:p:p
      BasicToken(Joined(<<233>>, TextP)),        \* e-acute:p, two bytes in UTF-8
      BasicToken(Joined(TextA, <<>>)),           \* a:
      BasicToken(Joined(<<>>, TextP)),           \* :p
      BasicToken(TextA),                         \* a
      BasicPrefix,                               \* "Basic "
      \* "Basic YT!pw": a:p with "!" inside the base64
      Insert(BasicToken(Joined(TextA, TextP)), 9, 33),
      \* "Basic YT=pw": a:p with "=" inside the base64
      Insert(BasicToken(Joined(TextA, TextP)), 9, Pad),
      \* "Basic YTpw YTpx": two base64 words and a space
      BasicToken(Joined(TextA, TextP)) \o <<32>>
          \o b64encode(utf8_encode(Joined(TextA, TextQ))),
      \* "Basic YTp": a:p with the last character cut off
      SubSeq(BasicToken(Joined(TextA, TextP)), 1, 9),
      \* "Basic YTr/": the bytes 61 3A FF, not UTF-8
      BasicPrefix \o b64encode(<<97, 58, 255>>),
      \* "Basic YT" e-acute "pw": a non-ASCII character inside the base64
      Insert(BasicToken(Joined(TextA, TextP)), 9, 233),
      \* "Bearer YTpw", "basic YTpw", "BasicYTpw"
      <<66, 101, 97, 114, 101, 114, 32>> \o b64encode(utf8_encode(Joined(TextA, TextP))),
      <<98, 97, 115, 105, 99, 32>> \o b64encode(utf8_encode(Joined(TextA, TextP))),
      <<66, 97, 115, 105, 99>> \o b64encode(utf8_encode(Joined(TextA, TextP))) }

\* The data of the requests
Requests ==
    { Request("none", JNull), Request("invalid", JNull),
      Request("nonobject", JNull),
      Request("object", JNull),             \* {} or {"token": null}
      Request("object", JStr(<<>>)),        \* {"token": ""}
      Request("object", JNum(0)),           \* {"token": 0}
      Request("object", JNum(5)),           \* {"token": 5}
      Request("object", JList(<<1>>)) }     \* {"token": [1]}
    \cup { Request("object", JStr(tok)) : tok \in Tokens }

(***************************************************************************)
(* State                                                                   *)
(***************************************************************************)

VARIABLES
    valid_users,   \* basic_auth_handler.valid_users
    request,       \* the data of the most recent handle_request
    result,        \* its response (NoResult before the first)
    credentials,   \* the [username, password] it unpacked, <<>> if none
    users_config,  \* the VALID_USERS text of the most recent direct config call
    config_ran,    \* the most recent call ran config
    had_users,     \* valid_users was non-empty when that config began
    only_blank     \* every config run so far read an absent or blank VALID_USERS

vars == << valid_users, request, result, credentials, users_config,
           config_ran, had_users, only_blank >>

\* users_config before any direct call of config
NoConfig == ConfigText("unread", <<>>)

\* basic_auth_handler = BasicAuth(): the state when the module is loaded
Init ==
    /\ valid_users = EmptyUsers
    /\ request = Request("none", JNull)
    /\ result = NoResult
    /\ credentials = <<>>
    /\ users_config = NoConfig
    /\ config_ran = FALSE
    /\ had_users = FALSE
    /\ only_blank = TRUE

(***************************************************************************)
(* The function's entry point                                              *)
(***************************************************************************)

\* handler calling config on every invocation
handler_always_config(ctx_config, data) ==
    LET users == config(valid_users, ctx_config)
        out   == handle_request(users, data)
    IN
    /\ valid_users' = users
    /\ request' = data
    /\ result' = out.result
    /\ credentials' = out.credentials
    /\ config_ran' = TRUE
    /\ had_users' = is_config_valid(valid_users)
    /\ only_blank' = (only_blank /\ ~ConfigPresent(ctx_config))
    /\ UNCHANGED users_config

\* handler(ctx, data): config(ctx) if valid_users is empty, then
\* handle_request(ctx, data).  ctx_config is VALID_USERS of ctx.Config().
handler(ctx_config, data) ==
    LET run_config == ~is_config_valid(valid_users)
        users == IF run_config THEN config(valid_users, ctx_config)
                 ELSE valid_users
        out   == handle_request(users, data)
    IN
    /\ valid_users' = users
    /\ request' = data
    /\ result' = out.result
    /\ credentials' = out.credentials
    /\ config_ran' = run_config
    /\ had_users' = (run_config /\ is_config_valid(valid_users))
    /\ only_blank' = (only_blank /\ (run_config => ~ConfigPresent(ctx_config)))
    /\ UNCHANGED users_config

\* An invocation that finds valid_users empty
HandlerUnconfigured ==
    /\ ~is_config_valid(valid_users)
    /\ \E ctx_config \in Configs, data \in Requests : handler(ctx_config, data)

\* An invocation that finds valid_users non-empty.  It does not read the
\* configuration of ctx, so the arrays of at most one element stand for all.
HandlerConfigured ==
    /\ is_config_valid(valid_users)
    /\ \E ctx_config \in ConfigsUpTo(1), data \in Requests :
           handler(ctx_config, data)

Next == HandlerUnconfigured \/ HandlerConfigured

\* The deployed function: a sequence of handler invocations
Spec == Init /\ [][Next]_vars

(***************************************************************************)
(* config called directly, with any dict contents                          *)
(***************************************************************************)

\* basic_auth_handler.config(ctx)
ConfigCall ==
    \E ctx_config \in Configs :
        /\ valid_users' = config(valid_users, ctx_config)
        /\ users_config' = ctx_config
        /\ config_ran' = TRUE
        /\ had_users' = is_config_valid(valid_users)
        /\ only_blank' = (only_blank /\ ~ConfigPresent(ctx_config))
        /\ UNCHANGED << request, result, credentials >>

NextConfig == ConfigCall

\* A sequence of direct calls of config
SpecConfig == Init /\ [][NextConfig]_vars

(***************************************************************************)
(* Properties                                                              *)
(***************************************************************************)

\* handle_request has been called
Called == result.status # "none"

\* The request is a JSON object whose token is a string starting "Basic "
HasBasicToken ==
    /\ request.kind = "object"
    /\ IsStr(request.token)
    /\ StartsWith(request.token.s, BasicPrefix)

\* The text the base64 part of a "Basic " token decodes to; ok is FALSE when
\* b64decode or the UTF-8 decoding raises
TokenText(tok) ==
    LET bytes == b64decode(SubSeq(tok, Len(BasicPrefix) + 1, Len(tok))) IN
    IF bytes.ok THEN utf8_decode(bytes.val, 1, <<>>)
    ELSE [ok |-> FALSE, val |-> <<>>]

HasColon(text) == \E i \in 1..Len(text) : text[i] = Colon

\* The position of the first colon of a text that has one
FirstColon(text) ==
    CHOOSE i \in 1..Len(text) :
        text[i] = Colon /\ \A j \in 1..(i - 1) : text[j] # Colon

\* The text before the first colon, and the text after it
BeforeColon(text) == SubSeq(text, 1, FirstColon(text) - 1)

AfterColon(text) == SubSeq(text, FirstColon(text) + 1, Len(text))

\* The request's token is "Basic " + base64(username + ":" + password)
TokenIsFor(username, password) ==
    request = Request("object", JStr(BasicToken(Joined(username.s, password.s))))

\* C1, as claimed: for every pair in valid_users, colon in the username or
\* not, the invocation with the pair's token answers active with the pair's
\* username as principal.
C1_EveryStoredPairAuthenticates ==
    \A u \in DOMAIN valid_users :
        ( /\ Called
          /\ IsStr(u)
          /\ IsStr(valid_users[u])
          /\ TokenIsFor(u, valid_users[u]) )
        => result = Returned(TRUE, u)

\* C1, amended: for every pair of strings in valid_users whose username has
\* no colon, the invocation with the token "Basic " + base64(username + ":" +
\* password) answers {active: true, principal: username}.
C1_ColonFreePairAuthenticates ==
    \A u \in DOMAIN valid_users :
        ( /\ Called
          /\ IsStr(u)
          /\ IsStr(valid_users[u])
          /\ ~HasColon(u.s)
          /\ TokenIsFor(u, valid_users[u]) )
        => result = Returned(TRUE, u)

\* C1 witness: the stored pair ("a", "b:p") was presented and accepted
C1_Witness ==
    /\ JStr(TextA) \in DOMAIN valid_users
    /\ valid_users[JStr(TextA)] = JStr(TextBP)
    /\ TokenIsFor(JStr(TextA), JStr(TextBP))
    /\ result = Returned(TRUE, JStr(TextA))

\* C2: a result with active = true names as principal the username before
\* the first colon of the token's decoded text, that username is a key of
\* valid_users and its value is the string after the first colon; a result
\* with active = false has principal null.
C2_ActiveMatchesStore ==
    /\ result.active =>
         /\ HasBasicToken
         /\ LET text == TokenText(request.token.s) IN
            /\ text.ok
            /\ HasColon(text.val)
            /\ result.principal = JStr(BeforeColon(text.val))
            /\ JStr(BeforeColon(text.val)) \in DOMAIN valid_users
            /\ valid_users[JStr(BeforeColon(text.val))]
                   = JStr(AfterColon(text.val))
    /\ ~result.active => result.principal = JNull

\* C2 witness: an accepted request against a store of two users
C2_Witness ==
    /\ result.active
    /\ result.principal = JStr(TextA)
    /\ Cardinality(DOMAIN valid_users) = 2

\* The request fails before the lookup: no data, unparseable JSON, JSON that
\* is not an object, a token that is absent or not a string or not Basic, or
\* a token whose credentials do not decode to text with a colon
FailurePath ==
    \/ request.kind # "object"
    \/ ~IsStr(request.token)
    \/ ~StartsWith(request.token.s, BasicPrefix)
    \/ ~TokenText(request.token.s).ok
    \/ ~HasColon(TokenText(request.token.s).val)

\* C3: no call of handle_request ends in an exception; every call returns
\* a result with a boolean active and a principal that is null or a string,
\* and on every failure path the result is {active: false, principal: null}.
C3_NeverRaises ==
    /\ result.status \in {"none", "returned"}
    /\ result.active \in BOOLEAN
    /\ result.principal = JNull \/ IsStr(result.principal)
    /\ (Called /\ FailurePath) => result = Inactive

\* C3 witness: a token that is a number, on which startswith raises, was
\* answered inactive with users loaded
C3_Witness ==
    /\ is_config_valid(valid_users)
    /\ request = Request("object", JNum(5))
    /\ result = Inactive

\* C6: with users loaded and a "Basic " token that decodes to text, the
\* credentials that pass the decoder are the text before the first colon and
\* the text after it, and there are none when the text has no colon, starts
\* with its first colon or ends with it.
C6_SplitOnFirstColon ==
    ( /\ Called
      /\ is_config_valid(valid_users)
      /\ HasBasicToken
      /\ TokenText(request.token.s).ok )
    => LET text == TokenText(request.token.s).val IN
       credentials =
           IF \/ ~HasColon(text)
              \/ FirstColon(text) = 1
              \/ FirstColon(text) = Len(text)
           THEN <<>>
           ELSE << BeforeColon(text), AfterColon(text) >>

\* C6 witness: "a:b:p" was decoded to ("a", "b:p")
C6_Witness ==
    /\ HasBasicToken
    /\ TokenText(request.token.s).val = Joined(TextA, TextBP)
    /\ credentials = << TextA, TextBP >>

\* The characters of the standard base64 alphabet
IsB64Char(c) == B64Value(c) < 64

\* s is standard base64: quads of alphabet characters, the last quad
\* possibly ending in "=" or "=="
WellFormedBase64(s) ==
    /\ Len(s) % 4 = 0
    /\ \A i \in 1..Len(s) :
           \/ IsB64Char(s[i])
           \/ s[i] = Pad /\ i = Len(s)
           \/ s[i] = Pad /\ i = Len(s) - 1 /\ s[Len(s)] = Pad
    /\ Len(s) > 0 => IsB64Char(s[1]) /\ IsB64Char(s[2])

\* C7: a "Basic " token whose remainder is not well-formed standard base64,
\* or does not decode to UTF-8, is answered {active: false, principal: null}.
C7_MalformedBase64Inactive ==
    ( /\ Called
      /\ HasBasicToken
      /\ \/ ~WellFormedBase64(SubSeq(request.token.s, Len(BasicPrefix) + 1,
                                     Len(request.token.s)))
         \/ ~TokenText(request.token.s).ok )
    => result = Inactive

\* C8: as long as every configuration read was absent or blank, valid_users
\* is empty and every invocation was answered {active: false, principal:
\* null}.
C8_BlankConfigRejectsAll ==
    only_blank =>
        /\ valid_users = EmptyUsers
        /\ result \in {NoResult, Inactive}

\* C8 witness: a well-formed token for "a:p" was rejected under a blank
\* configuration
C8_Witness ==
    /\ only_blank
    /\ config_ran
    /\ TokenIsFor(JStr(TextA), JStr(TextP))
    /\ result = Inactive

\* C10: an invocation that finds valid_users non-empty leaves it as it is,
\* and config runs only in an invocation that finds it empty.
C10_StoreFrozenOncePopulated ==
    [][ /\ is_config_valid(valid_users) => valid_users' = valid_users
        /\ config_ran' => ~is_config_valid(valid_users) ]_vars

\* C10 witness: an invocation on a populated store that did not run config
\* and rejected its request
C10_Witness ==
    /\ is_config_valid(valid_users)
    /\ ~config_ran
    /\ result = Inactive
    /\ request.kind = "invalid"

(***************************************************************************)
(* Properties of config                                                    *)
(***************************************************************************)

\* The most recent call was config, on an array
ArrayConfigured == config_ran /\ users_config.kind = "array"

\* A string with at least one character
NonEmptyStr(v) == IsStr(v) /\ Len(v.s) > 0

\* Element e has a username and a password that are both non-empty
BothNonEmpty(e) == Truthy(e.username) /\ Truthy(e.password)

\* The configuration format: an array of objects whose username and
\* password, where given, are strings
ValidConfig ==
    /\ ArrayConfigured
    /\ \A i \in 1..Len(users_config.entries) :
           LET e == users_config.entries[i] IN
           /\ e.obj
           /\ e.username = JNull \/ IsStr(e.username)
           /\ e.password = JNull \/ IsStr(e.password)

\* The text is not parseable or not an array, or an element is not an object
Unreadable ==
    /\ config_ran
    /\ \/ users_config.kind \in {"invalid", "scalar", "emptyobject", "object"}
       \/ /\ users_config.kind = "array"
          /\ \E i \in 1..Len(users_config.entries) :
                 ~users_config.entries[i].obj

\* An element of the array is an object that lacks username or password
MissingField ==
    /\ ArrayConfigured
    /\ \E i \in 1..Len(users_config.entries) :
           LET e == users_config.entries[i] IN
           e.obj /\ (e.username = JNull \/ e.password = JNull)

\* C4, as claimed: after config on text that is not parseable, not an array
\* or has an entry with a missing field, valid_users is empty.
C4_MalformedEmptiesStore ==
    (Unreadable \/ MissingField) => valid_users = EmptyUsers

\* C4, amended: after config on text that is not parseable, is not an array
\* or has an element that is not an object, valid_users is empty, whatever
\* it held before and whatever elements came first; an object that lacks a
\* field is skipped, and in an array of objects every entry with a non-empty
\* username and password is loaded.
C4_UnreadableEmptiesStore ==
    /\ Unreadable => valid_users = EmptyUsers
    /\ ValidConfig =>
           \A i \in 1..Len(users_config.entries) :
               BothNonEmpty(users_config.entries[i])
                   => users_config.entries[i].username \in DOMAIN valid_users

\* C4 witness: a non-object element after a well-formed entry emptied a
\* dict that held users
C4_Witness ==
    /\ ArrayConfigured
    /\ had_users
    /\ users_config.entries = << Entry(JStr(TextA), JStr(TextP)), NonObjectEntry >>
    /\ valid_users = EmptyUsers

\* C5: after config on an array of objects, is_config_valid is true exactly
\* when some entry has a non-empty username and a non-empty password.
C5_ValidIffSomeEntry ==
    ValidConfig =>
        ( is_config_valid(valid_users)
          <=> \E i \in 1..Len(users_config.entries) :
                  /\ NonEmptyStr(users_config.entries[i].username)
                  /\ NonEmptyStr(users_config.entries[i].password) )

\* C5 witness: an array whose only complete entry follows an incomplete one
C5_Witness ==
    /\ ValidConfig
    /\ users_config.entries = << Entry(JStr(TextA), JNull),
                                 Entry(JStr(TextAB), JStr(TextP)) >>
    /\ is_config_valid(valid_users)

\* Every element is an object and no username is unhashable: the loop of
\* config runs to its end
LoadCompletes ==
    /\ ArrayConfigured
    /\ \A i \in 1..Len(users_config.entries) :
           /\ users_config.entries[i].obj
           /\ Hashable(users_config.entries[i].username)

\* The index of the last entry for username u with both fields non-empty
LastEntryFor(u) ==
    CHOOSE i \in 1..Len(users_config.entries) :
        /\ users_config.entries[i].username = u
        /\ BothNonEmpty(users_config.entries[i])
        /\ \A j \in (i + 1)..Len(users_config.entries) :
               ~( /\ users_config.entries[j].username = u
                  /\ BothNonEmpty(users_config.entries[j]) )

\* Username u has several entries with both fields non-empty
Duplicated(u) ==
    \E i, j \in 1..Len(users_config.entries) :
        /\ i < j
        /\ users_config.entries[i].username = u
        /\ users_config.entries[j].username = u
        /\ BothNonEmpty(users_config.entries[i])
        /\ BothNonEmpty(users_config.entries[j])

\* C9: after config on an array of objects in which a username has several
\* entries with non-empty username and password, valid_users maps the
\* username to the password of the last of them, and a request is accepted
\* for that username only with that password.
C9_LastWriteWins ==
    LoadCompletes =>
        \A i \in 1..Len(users_config.entries) :
            LET u == users_config.entries[i].username IN
            Duplicated(u) =>
                /\ u \in DOMAIN valid_users
                /\ valid_users[u] = users_config.entries[LastEntryFor(u)].password
                /\ \A data \in Requests :
                       LET out == handle_request(valid_users, data) IN
                       (out.result.active /\ out.result.principal = u)
                           => JStr(out.credentials[2])
                                  = users_config.entries[LastEntryFor(u)].password

\* C9 witness: "a" configured with "p" and then "b:p" is stored with "b:p"
C9_Witness ==
    /\ ArrayConfigured
    /\ users_config.entries = << Entry(JStr(TextA), JStr(TextP)),
                                 Entry(JStr(TextA), JStr(TextBP)) >>
    /\ valid_users[JStr(TextA)] = JStr(TextBP)

====
